---- MODULE Spec2Model ----
(***************************************************************************)
(* The live capture / transcribe / translate pipeline of transcriber.py:   *)
(* AudioRecorder (rolling buffer `frames`, capture thread `_record`) and   *)
(* VoiceProcessor (start/stop_live_transcription, _live_processing_loop).  *)
(*                                                                         *)
(* Granularity: one step per Python statement that reads or writes shared  *)
(* state; statements touching only thread locals are folded into the step  *)
(* before them.  A `with self.frames_lock:` block holding one statement is *)
(* one step guarded by the lock being free; the two-statement drain block  *)
(* (copy, clear) is two steps with the lock held in between.               *)
(* Blocking calls (device read, STT, translation, callback) are states a   *)
(* thread stays in until the call returns.                                 *)
(* start_live_transcription is one step, and so is stop_live_transcription *)
(* up to its first join: both are called from the one thread that owns the *)
(* VoiceProcessor, and the flags they write are read by the loops only at  *)
(* their loop tests.  A bounded join returns once its thread has ended or  *)
(* while the thread sits in a blocking call.                               *)
(*                                                                         *)
(* Beside the pipeline: one call of WhisperTranscriber.transcribe with its *)
(* retry loop, one call of each translate function of the repository, and  *)
(* TranslationApp of main.py (the two button handlers and the result       *)
(* callback) driving the VoiceProcessor.                                   *)
(***************************************************************************)
EXTENDS Integers, Sequences, FiniteSets, TLC

(* ---------------------------------------------------------------- bounds *)
\* Threads of each kind (capture, processing) that may be alive at once.
MaxThreads == 2
\* Threads of both kinds that may be alive at once.
MaxAlive == 3
\* Chunks appended since the buffer was last emptied (drain or start reset).
MaxAppends == 7
\* Scaled-down AudioRecorder parameters (the program uses 44100, 1024, 3).
Rate == 6
Chunk == 1
BufferSeconds == 1

(* ------------------------------------------------------------- constants *)
\* `len(frames_copy) > 5`
min_chunks == 5

NoThread == 0
CapIds == 1..MaxThreads
ProcIds == 1..MaxThreads

None == "None"
Callbacks == {None, "cb1"}

\* Texts are sequences of characters; " " is whitespace.
Texts == { <<>>, <<"h">>, <<"h", " ">>, <<"w">> }

SessionTexts == { <<" ">>, <<"h">> }

\* Raw language strings the STT call may report, and session language hints.
SttLangs == {"", "english"}
SourceLangs == {None}

\* Results of Translator.translate
Translations == {"", "tr"}
TargetLangs == {"ru"}

\* `process_interval = 0.3`, in units of 0.1 s
process_interval == 3

\* The clock reading when the program starts, and the last reading modelled.
Epoch == process_interval
MaxTime == 9

\* The options of a transcribe call before its first attempt.
NoOptions == [language |-> None, temperature |-> 0]

\* No call of a translate function made yet, and so no outcome.
NoTranslate == [impl |-> "none", text |-> <<>>, source |-> None, target |-> None]
NoOutcome == [sent |-> FALSE, raised |-> FALSE, result |-> <<>>]

\* No translation request; no LiveResult delivered yet.
NoCall == <<>>
NotYet == <<"?">>

(* ----------------------------------------------------------------- state *)
VARIABLES
    \* VoiceProcessor
    live_mode, should_process, callback, processing_thread,
    \* AudioRecorder
    is_recording, frames, frames_lock, recording_thread,
    \* capture threads (_record): position of each
    cpc,
    \* processing threads (_live_processing_loop): position and locals
    ppc, source_lang, target_lang, last_transcription, frames_copy,
    transcription, detected_lang, translation, tr_request,
    \* the caller of start/stop: position inside stop_live_transcription
    mpc,
    \* history: appends since the buffer was last emptied; the last call made;
    \* the trimmed transcript each loop last delivered to the callback
    appended, last_op, delivered,
    \* history: a non-empty transcript was obtained since the last start
    obtained,
    \* the clock (time.time(), in units of 0.1 s) and each processing loop's
    \* last_process_time
    now, last_process_time,
    \* TranslationApp (main.py): the scene, the state flags, the cooldown
    \* reference, the position of the button handler, what the screen shows
    current_scene_index, is_scene_active, live_transcription_active,
    app_is_recording, is_processing, is_showing_results, camera_active,
    last_action_time, app_pc, display,
    \* the button handler's reading of the clock; history: what the app did
    \* last
    current_time, app_op,
    \* one call of WhisperTranscriber.transcribe: position, arguments, the
    \* attempt, its options, the requests sent so far, the value returned
    w_pc, w_language, w_max_retries, w_attempt, w_options, w_sent, w_result,
    \* one call of a translate function: the call and what came of it
    x_call, x_out

vpVars == <<live_mode, should_process, callback, processing_thread>>
recVars == <<is_recording, frames, frames_lock, recording_thread>>
procLocals == <<source_lang, target_lang, last_transcription, frames_copy,
                transcription, detected_lang, translation, tr_request>>
clockVars == <<now, last_process_time>>
whisperVars == <<w_pc, w_language, w_max_retries, w_attempt, w_options,
                 w_sent, w_result>>
appVars == <<current_scene_index, is_scene_active, live_transcription_active,
             app_is_recording, is_processing, is_showing_results,
             camera_active, last_action_time, app_pc, display, current_time, app_op>>
callVars == <<w_pc, w_language, w_max_retries, w_attempt, w_options, w_sent,
              w_result,
              x_call, x_out>>
\* what the steps of the capture and processing threads leave alone
restVars == <<clockVars, appVars, callVars>>
vars == <<vpVars, recVars, cpc, ppc, procLocals, mpc, appended, last_op,
          delivered, obtained, restVars>>

(* --------------------------------------------------------------- helpers *)
RECURSIVE lstrip(_)
lstrip(t) == IF t # <<>> /\ Head(t) = " " THEN lstrip(Tail(t)) ELSE t

RECURSIVE rstrip(_)
rstrip(t) ==
    IF t # <<>> /\ t[Len(t)] = " " THEN rstrip(SubSeq(t, 1, Len(t) - 1)) ELSE t

\* str.strip()
strip(t) == rstrip(lstrip(t))

\* max_frames = int(self.rate / self.chunk * self.buffer_seconds)
max_frames == (Rate * BufferSeconds) \div Chunk

\* Fault: the trim keeps the oldest chunks instead of the most recent ones.
FirstFrames(f, n) == IF Len(f) > n THEN SubSeq(f, 1, n) ELSE f

\* self.frames[-max_frames:]  (a slice from -0 is the whole list)
LastFrames(f, n) ==
    IF n = 0 \/ Len(f) <= n THEN f ELSE SubSeq(f, Len(f) - n + 1, Len(f))

\* Fault: the lock is ignored, every critical section can always be entered.
LockIgnored == TRUE

\* `with self.frames_lock:` can be entered
LockFree == frames_lock = NoThread

CapAlive(c) == cpc[c] # "none"
ProcAlive(p) == ppc[p] # "none"

\* threading.Thread(...): the new thread takes the lowest free slot
FreeCap == IF \E c \in CapIds : ~CapAlive(c)
           THEN CHOOSE c \in CapIds : ~CapAlive(c) /\ \A d \in CapIds : ~CapAlive(d) => c <= d
           ELSE NoThread
FreeProc == IF \E p \in ProcIds : ~ProcAlive(p)
            THEN CHOOSE p \in ProcIds : ~ProcAlive(p) /\ \A q \in ProcIds : ~ProcAlive(q) => p <= q
            ELSE NoThread

\* Number of threads alive
Alive == Cardinality({c \in CapIds : CapAlive(c)})
         + Cardinality({p \in ProcIds : ProcAlive(p)})

(* ------------------------------------------------------------------ Init *)
Init ==
    /\ live_mode = FALSE
    /\ should_process = FALSE
    /\ callback = None
    /\ processing_thread = NoThread
    /\ is_recording = FALSE
    /\ frames = <<>>
    /\ frames_lock = NoThread
    /\ recording_thread = NoThread
    /\ cpc = [c \in CapIds |-> "none"]
    /\ ppc = [p \in ProcIds |-> "none"]
    /\ source_lang = [p \in ProcIds |-> None]
    /\ target_lang = [p \in ProcIds |-> None]
    /\ last_transcription = [p \in ProcIds |-> <<>>]
    /\ frames_copy = [p \in ProcIds |-> <<>>]
    /\ transcription = [p \in ProcIds |-> <<>>]
    /\ detected_lang = [p \in ProcIds |-> ""]
    /\ translation = [p \in ProcIds |-> None]
    /\ tr_request = [p \in ProcIds |-> NoCall]
    /\ mpc = "idle"
    /\ appended = 0
    /\ last_op = "none"
    /\ delivered = [p \in ProcIds |-> NotYet]
    /\ obtained = FALSE
    /\ now = Epoch
    /\ last_process_time = [p \in ProcIds |-> 0]
    /\ current_scene_index = 0
    /\ is_scene_active = FALSE
    /\ live_transcription_active = FALSE
    /\ app_is_recording = FALSE
    /\ is_processing = FALSE
    /\ is_showing_results = FALSE
    /\ camera_active = FALSE
    /\ last_action_time = 0
    /\ app_pc = "idle"
    /\ display = "scene"
    /\ current_time = 0
    /\ app_op = "none"
    /\ w_pc = "idle"
    /\ w_language = None
    /\ w_max_retries = 0
    /\ w_attempt = 0
    /\ w_options = NoOptions
    /\ w_sent = <<>>
    /\ w_result = << <<>>, "" >>
    /\ x_call = NoTranslate
    /\ x_out = NoOutcome

(* ------------------------------------------ VoiceProcessor: start / stop *)
\* Faults: start without its early return; stop without its early return.
NeverActive == FALSE
NeverIdle == FALSE

\* `if self.live_mode: return`
AlreadyActive == live_mode

\* `if not self.live_mode: return`
AlreadyIdle == ~live_mode

\* AudioRecorder.start_recording(continuous=True), called by start.
\* `c` is the slot of the thread it creates.
start_recording(c) ==
    IF is_recording
    THEN UNCHANGED <<recVars, cpc, appended>>
    ELSE /\ frames' = <<>>
         /\ appended' = 0
         /\ is_recording' = TRUE
         /\ recording_thread' = c
         /\ cpc' = [cpc EXCEPT ![c] = "open"]
         /\ UNCHANGED frames_lock

\* VoiceProcessor.start_live_transcription, whoever calls it.
StartSession(src, tgt, cb) ==
    /\ mpc = "idle"
    /\ IF AlreadyActive
       THEN /\ last_op' = "start_noop"
            /\ UNCHANGED <<vpVars, recVars, cpc, ppc, procLocals, mpc,
                           appended, delivered, obtained, clockVars,
                           callVars>>
       ELSE /\ FreeProc # NoThread
            /\ is_recording \/ FreeCap # NoThread
            /\ Alive + (IF is_recording THEN 1 ELSE 2) <= MaxAlive
            /\ live_mode' = TRUE
            /\ should_process' = TRUE
            /\ callback' = cb
            /\ start_recording(FreeCap)
            /\ processing_thread' = FreeProc
            /\ ppc' = [ppc EXCEPT ![FreeProc] = "test"]
            /\ source_lang' = [source_lang EXCEPT ![FreeProc] = src]
            /\ target_lang' = [target_lang EXCEPT ![FreeProc] = tgt]
            /\ last_transcription' = [last_transcription EXCEPT ![FreeProc] = <<>>]
            /\ delivered' = [delivered EXCEPT ![FreeProc] = NotYet]
            /\ obtained' = FALSE
            /\ last_op' = "start"
            /\ last_process_time' = [last_process_time EXCEPT ![FreeProc] = 0]
            /\ UNCHANGED <<frames_copy, transcription, detected_lang,
                           translation, tr_request, mpc, now, callVars>>

\* The call made by a caller that is not the app.
start_live_transcription(src, tgt, cb) ==
    StartSession(src, tgt, cb) /\ UNCHANGED appVars

\* stop_live_transcription up to the first join: the flags, then
\* AudioRecorder.stop_recording up to its join.
StopSession ==
    /\ mpc = "idle"
    /\ IF AlreadyIdle
       THEN /\ last_op' = "stop_noop"
            /\ UNCHANGED <<vpVars, recVars, cpc, ppc, procLocals, mpc,
                           appended, delivered, obtained, clockVars,
                           callVars>>
       ELSE /\ should_process' = FALSE
            /\ live_mode' = FALSE
            /\ IF ~is_recording
               THEN mpc' = "join_proc" /\ UNCHANGED is_recording
               ELSE mpc' = "join_rec" /\ is_recording' = FALSE
            /\ last_op' = "stop"
            /\ obtained' = FALSE
            /\ UNCHANGED <<callback, processing_thread, frames, frames_lock,
                           recording_thread, cpc, ppc, procLocals,
                           appended, delivered, clockVars, callVars>>

\* The call made by a caller that is not the app.
StopBegin == StopSession /\ UNCHANGED appVars

\* Positions of a processing thread inside a call of the STT service, the
\* translation service or the callback.
ExternalCalls == {"stt", "translate", "incb"}

\* Fault: the join has no timeout, it waits until the thread has ended.
NeverBlocked(p) == FALSE

\* A thread sits in a call that can outlast the 1.0 s join timeout.
CapBlocked(c) == cpc[c] = "read"
ProcBlocked(p) == ppc[p] \in ExternalCalls

\* `self.recording_thread.join(timeout=1.0)` returns: the thread ended, or
\* the timeout expired while the thread was blocked.
JoinRecording ==
    /\ mpc = "join_rec"
    /\ \/ recording_thread = NoThread
       \/ recording_thread # NoThread /\ ~CapAlive(recording_thread)
       \/ recording_thread # NoThread /\ CapBlocked(recording_thread)
    /\ mpc' = "join_proc"
    /\ UNCHANGED <<vpVars, recVars, cpc, ppc, procLocals, appended, last_op,
                   delivered, obtained, restVars>>

\* `self.processing_thread.join(timeout=1.0)` returns, and so does stop.
JoinProcessing ==
    /\ mpc = "join_proc"
    /\ \/ processing_thread = NoThread
       \/ processing_thread # NoThread /\ ~ProcAlive(processing_thread)
       \/ processing_thread # NoThread /\ ProcBlocked(processing_thread)
    /\ mpc' = "idle"
    /\ UNCHANGED <<vpVars, recVars, cpc, ppc, procLocals, appended, last_op,
                   delivered, obtained, restVars>>

(* ------------------------------------------------ AudioRecorder._record *)
\* `self.stream = self.audio.open(**kwargs)`, or its except branch, which
\* ends the thread.
CapOpen(c) ==
    /\ cpc[c] = "open"
    /\ \/ /\ cpc' = [cpc EXCEPT ![c] = "test"]
          /\ UNCHANGED is_recording
       \/ /\ is_recording' = FALSE
          /\ cpc' = [cpc EXCEPT ![c] = "none"]
    /\ UNCHANGED <<vpVars, frames, frames_lock, recording_thread, ppc,
                   procLocals, mpc, appended, last_op, delivered, obtained, restVars>>

\* `while self.is_recording:`; when it is false the stream is closed and the
\* thread ends, otherwise the device read begins.
CapTest(c) ==
    /\ cpc[c] = "test"
    /\ cpc' = [cpc EXCEPT ![c] = IF is_recording THEN "read" ELSE "none"]
    /\ UNCHANGED <<vpVars, recVars, ppc, procLocals, mpc, appended, last_op,
                   delivered, obtained, restVars>>

\* The device read returns a chunk, which is appended under the lock.
CapAppend(c) ==
    /\ cpc[c] = "read"
    /\ appended < MaxAppends
    /\ LockFree
    /\ frames' = Append(frames, appended + 1)
    /\ appended' = appended + 1
    /\ cpc' = [cpc EXCEPT ![c] = "check"]
    /\ UNCHANGED <<vpVars, is_recording, frames_lock, recording_thread,
                   ppc, procLocals, mpc, last_op, delivered, obtained, restVars>>

\* The device read raises (the device failed, or the stream was closed or
\* set to None by another capture thread's clean-up): `except Exception:
\* break`, the stream is closed and the thread ends.
CapReadError(c) ==
    /\ cpc[c] = "read"
    /\ cpc' = [cpc EXCEPT ![c] = "none"]
    /\ UNCHANGED <<vpVars, recVars, ppc, procLocals, mpc, appended, last_op,
                   delivered, obtained, restVars>>

\* `if len(self.frames) > max_frames:` (read without the lock)
CapCheck(c) ==
    /\ cpc[c] = "check"
    /\ cpc' = [cpc EXCEPT ![c] = IF Len(frames) > max_frames THEN "trim" ELSE "test"]
    /\ UNCHANGED <<vpVars, recVars, ppc, procLocals, mpc, appended, last_op,
                   delivered, obtained, restVars>>

\* `with self.frames_lock: self.frames = self.frames[-max_frames:]`
CapTrim(c) ==
    /\ cpc[c] = "trim"
    /\ LockFree
    /\ frames' = LastFrames(frames, max_frames)
    /\ cpc' = [cpc EXCEPT ![c] = "test"]
    /\ UNCHANGED <<vpVars, is_recording, frames_lock, recording_thread,
                   ppc, procLocals, mpc, appended, last_op, delivered,
                   obtained, restVars>>

(* ------------------------------- VoiceProcessor._live_processing_loop *)
\* Fault: the language string is looked up without lower-casing it.
not_lowered(s) == s

\* str.lower() on the language strings the model uses
lower(s) ==
    CASE s = "ENGLISH" -> "english"
      [] s = "English" -> "english"
      [] s = "EN" -> "en"
      [] s = "Russian" -> "russian"
      [] s = "RU" -> "ru"
      [] s = "Spanish" -> "spanish"
      [] s = "ES" -> "es"
      [] s = "French" -> "french"
      [] s = "FR" -> "fr"
      [] s = "German" -> "german"
      [] s = "DE" -> "de"
      [] s = "Japanese" -> "japanese"
      [] s = "JA" -> "ja"
      [] s = "Italian" -> "italian"
      [] s = "IT" -> "it"
      [] s = "Chinese" -> "chinese"
      [] s = "ZH" -> "zh"
      [] s = "Korean" -> "korean"
      [] s = "KO" -> "ko"
      [] s = "RUSSIAN" -> "russian"
      [] s = "SPANISH" -> "spanish"
      [] s = "FRENCH" -> "french"
      [] s = "GERMAN" -> "german"
      [] s = "JAPANESE" -> "japanese"
      [] s = "ITALIAN" -> "italian"
      [] s = "CHINESE" -> "chinese"
      [] s = "KOREAN" -> "korean"
      [] s = "Klingon" -> "klingon"
      [] OTHER -> s

\* language_code_map
language_code_map ==
    [n \in {"english", "russian", "spanish", "french", "german", "japanese",
            "italian", "chinese", "korean"} |->
        CASE n = "english" -> "en"
          [] n = "russian" -> "ru"
          [] n = "spanish" -> "es"
          [] n = "french" -> "fr"
          [] n = "german" -> "de"
          [] n = "japanese" -> "ja"
          [] n = "italian" -> "it"
          [] n = "chinese" -> "zh"
          [] n = "korean" -> "ko"]

\* Fault: the detected language is used as reported, without the map.
detected_lang_raw(d) == IF d # "" THEN d ELSE None

\* "Standardize language code": detected_lang_code
detected_lang_code(d) ==
    IF d # "" /\ lower(d) \in DOMAIN language_code_map
    THEN language_code_map[lower(d)]
    ELSE IF d # "" THEN lower(d) ELSE None

\* Fault: en and ru are translated into each other whatever the target is.
TranslateCallForced(text, tgt, code) ==
    IF tgt # None /\ text # <<>> /\ code # None
    THEN IF code = "en" THEN <<"en", "ru">>
         ELSE IF code = "ru" THEN <<"ru", "en">>
         ELSE <<code, tgt>>
    ELSE NoCall

\* The translate call the cycle makes, <<source, target>>, or NoCall.
TranslateCall(text, tgt, code) ==
    IF tgt # None /\ text # <<>> /\ code # None
    THEN IF tgt = "ru" /\ code = "en" THEN <<"en", "ru">>
         ELSE IF tgt = "en" /\ code = "ru" THEN <<"ru", "en">>
         ELSE IF code \notin {"en", "ru"} THEN <<code, tgt>>
         ELSE NoCall
    ELSE NoCall

\* Fault: the transcript is tested for emptiness without trimming it.
EmptyUntrimmed(text) == text = <<>>

\* Fault: the check for an empty transcript is missing.
NeverEmpty(text) == FALSE

\* `if not transcription.strip(): continue`
IsEmptyTranscription(text) == strip(text) = <<>>

\* Fault: every transcript after the first accepted one counts as a duplicate.
IsDuplicateAfterFirst(text, last) == last # <<>>

\* `if transcription.strip() == last_transcription.strip(): continue`
IsDuplicate(text, last) == strip(text) = strip(last)

\* Locals that are dead between cycles, at their initial values.
ResetCycle(p) ==
    /\ frames_copy' = [frames_copy EXCEPT ![p] = <<>>]
    /\ transcription' = [transcription EXCEPT ![p] = <<>>]
    /\ detected_lang' = [detected_lang EXCEPT ![p] = ""]
    /\ translation' = [translation EXCEPT ![p] = None]
    /\ tr_request' = [tr_request EXCEPT ![p] = NoCall]

\* Fault: the loop never looks at the flag.
LoopForever == TRUE

\* `while self.should_process:`
LoopCondition == should_process

\* The loop test; the thread ends when it is false.
ProcTest(p) ==
    /\ ppc[p] = "test"
    /\ IF LoopCondition
       THEN /\ ppc' = [ppc EXCEPT ![p] = "poll"]
            /\ UNCHANGED <<procLocals, delivered, last_process_time>>
       ELSE /\ ppc' = [ppc EXCEPT ![p] = "none"]
            /\ source_lang' = [source_lang EXCEPT ![p] = None]
            /\ target_lang' = [target_lang EXCEPT ![p] = None]
            /\ last_transcription' = [last_transcription EXCEPT ![p] = <<>>]
            /\ delivered' = [delivered EXCEPT ![p] = NotYet]
            /\ last_process_time' = [last_process_time EXCEPT ![p] = 0]
            /\ UNCHANGED <<frames_copy, transcription, detected_lang,
                           translation, tr_request>>
    /\ UNCHANGED <<vpVars, recVars, cpc, mpc, appended, last_op, obtained,
                   now, appVars, callVars>>

\* `if current_time - last_process_time >= process_interval and
\*  self.recorder.frames:`; otherwise sleep and test again.
Poll(p, elapsed) ==
    /\ ppc[p] = "poll"
    /\ ppc' = [ppc EXCEPT ![p] =
                 IF elapsed /\ frames # <<>> THEN "copy" ELSE "test"]
    /\ UNCHANGED <<vpVars, recVars, cpc, procLocals, mpc, appended, last_op,
                   delivered, obtained, now, appVars, callVars>>

\* The poll with the clock left out: the interval has elapsed or has not.
ProcPoll(p) ==
    /\ \E elapsed \in BOOLEAN : Poll(p, elapsed)
    /\ UNCHANGED last_process_time

\* Fault: the interval is not waited for.
AlwaysElapsed(p) == TRUE

\* `current_time - last_process_time >= process_interval`
IntervalElapsed(p) == now - last_process_time[p] >= process_interval

\* The poll with the clock: `current_time = time.time()`, the test, and
\* `last_process_time = current_time` when the cycle begins.
ProcPollTimed(p) ==
    /\ Poll(p, IntervalElapsed(p))
    /\ last_process_time' =
          IF IntervalElapsed(p) /\ frames # <<>>
          THEN [last_process_time EXCEPT ![p] = now]
          ELSE last_process_time

\* Time passes: in `time.sleep(0.1)`, in a blocking call, or while a thread
\* waits for the processor.
Tick ==
    /\ now < MaxTime
    /\ now' = now + 1
    /\ UNCHANGED <<vpVars, recVars, cpc, ppc, procLocals, mpc, appended,
                   last_op, delivered, obtained, last_process_time, appVars,
                   callVars>>

\* `with self.recorder.frames_lock: frames_copy = self.recorder.frames.copy()`
ProcCopy(p) ==
    /\ ppc[p] = "copy"
    /\ LockFree
    /\ frames_lock' = p
    /\ frames_copy' = [frames_copy EXCEPT ![p] = frames]
    /\ ppc' = [ppc EXCEPT ![p] = "clear"]
    /\ UNCHANGED <<vpVars, is_recording, frames, recording_thread, cpc,
                   source_lang, target_lang, last_transcription, transcription,
                   detected_lang, translation, tr_request, mpc, appended,
                   last_op, delivered, obtained, restVars>>

\* Fault: any drained audio is enough for a segment.
AnyAudio(fc) == Len(fc) > 0

\* `len(frames_copy) > 5`
EnoughAudio(fc) == Len(fc) > min_chunks

\* Fault: the drain leaves the buffer as it is.
KeptFrames(f) == f

\* `self.recorder.frames.clear()`
ClearedFrames(f) == <<>>

\* The buffer is cleared and the lock is released; then the check for
\* enough audio, the segment file, and the call of transcribe begins.
ProcClear(p) ==
    /\ ppc[p] = "clear"
    /\ frames' = ClearedFrames(frames)
    /\ appended' = 0
    /\ frames_lock' = NoThread
    /\ IF EnoughAudio(frames_copy[p])
       THEN /\ ppc' = [ppc EXCEPT ![p] = "stt"]
            /\ UNCHANGED frames_copy
       ELSE /\ ppc' = [ppc EXCEPT ![p] = "test"]
            /\ frames_copy' = [frames_copy EXCEPT ![p] = <<>>]
    /\ UNCHANGED <<vpVars, is_recording, recording_thread, cpc,
                   source_lang, target_lang, last_transcription, transcription,
                   detected_lang, translation, tr_request, mpc, last_op,
                   delivered, obtained, restVars>>

\* `options["language"]` of the STT request: the language given, "en" when
\* none is given.
SttLanguageOption(language) == IF language # None THEN language ELSE "en"

\* The language option of the request in progress:
\* `self.transcriber.transcribe(audio_file, source_lang)`
SttRequestLanguage(p) == SttLanguageOption(source_lang[p])

\* What transcribe returns when the STT request raised: `return "", ""`
SttFailure == << <<>>, "" >>

\* `transcription, detected_lang = self.transcriber.transcribe(...)` returns.
ProcTranscribed(p, text, lang) ==
    /\ ppc[p] = "stt"
    /\ transcription' = [transcription EXCEPT ![p] = text]
    /\ detected_lang' = [detected_lang EXCEPT ![p] = lang]
    /\ frames_copy' = [frames_copy EXCEPT ![p] = <<>>]
    /\ ppc' = [ppc EXCEPT ![p] = "got"]
    /\ UNCHANGED <<vpVars, recVars, cpc, source_lang, target_lang,
                   last_transcription, translation, tr_request, mpc, appended,
                   last_op, delivered, obtained, restVars>>

\* Empty and duplicate transcripts end the cycle (`continue`); otherwise
\* last_transcription is updated and the cycle goes on to the translate call
\* it needs, or to the callback.
ProcDecide(p) ==
    /\ ppc[p] = "got"
    /\ IF \/ IsEmptyTranscription(transcription[p])
          \/ IsDuplicate(transcription[p], last_transcription[p])
       THEN /\ ppc' = [ppc EXCEPT ![p] = "test"]
            /\ ResetCycle(p)
            /\ UNCHANGED last_transcription
       ELSE /\ last_transcription' =
                  [last_transcription EXCEPT ![p] = strip(transcription[p])]
            /\ LET call == TranslateCall(transcription[p], target_lang[p],
                                         detected_lang_code(detected_lang[p]))
               IN /\ tr_request' = [tr_request EXCEPT ![p] = call]
                  /\ ppc' = [ppc EXCEPT ![p] =
                               IF call # NoCall THEN "translate" ELSE "cbtest"]
            /\ UNCHANGED <<frames_copy, transcription, detected_lang,
                           translation>>
    /\ obtained' = (obtained \/ (live_mode /\ strip(transcription[p]) # <<>>))
    /\ UNCHANGED <<vpVars, recVars, cpc, source_lang, target_lang, mpc,
                   appended, last_op, delivered, restVars>>

\* The segment file of the cycle exists: it is created by
\* `tempfile.NamedTemporaryFile(suffix=".wav", delete=False)` before the STT
\* call and removed by `os.unlink(audio_file)` before the callback is tested.
SegmentExists(p) == ppc[p] \in {"stt", "got", "translate"}

\* Writing the segment file raises: `except Exception` ends the cycle.
ProcSegmentError(p) ==
    /\ ppc[p] = "stt"
    /\ ppc' = [ppc EXCEPT ![p] = "test"]
    /\ ResetCycle(p)
    /\ UNCHANGED <<vpVars, recVars, cpc, source_lang, target_lang,
                   last_transcription, mpc, appended, last_op, delivered,
                   obtained, restVars>>

\* Fault: a failed translation raises into the cycle's `except`, which ends
\* the cycle.
TranslationFailureAborts(p, result) ==
    /\ ppc[p] = "translate"
    /\ IF result = ""
       THEN /\ ppc' = [ppc EXCEPT ![p] = "test"]
            /\ ResetCycle(p)
       ELSE /\ translation' = [translation EXCEPT ![p] = result]
            /\ tr_request' = [tr_request EXCEPT ![p] = NoCall]
            /\ ppc' = [ppc EXCEPT ![p] = "cbtest"]
            /\ UNCHANGED <<frames_copy, transcription, detected_lang>>
    /\ UNCHANGED <<vpVars, recVars, cpc, source_lang, target_lang,
                   last_transcription, mpc, appended, last_op, delivered,
                   obtained, restVars>>

\* Translator.translate returns its result, "" when the request failed.
ProcTranslated(p, result) ==
    /\ ppc[p] = "translate"
    /\ translation' = [translation EXCEPT ![p] = result]
    /\ tr_request' = [tr_request EXCEPT ![p] = NoCall]
    /\ ppc' = [ppc EXCEPT ![p] = "cbtest"]
    /\ UNCHANGED <<vpVars, recVars, cpc, source_lang, target_lang,
                   last_transcription, frames_copy, transcription,
                   detected_lang, mpc, appended, last_op, delivered, obtained, restVars>>

\* `if self.callback:`
ProcCallbackTest(p) ==
    /\ ppc[p] = "cbtest"
    /\ IF callback # None
       THEN /\ ppc' = [ppc EXCEPT ![p] = "cbcall"]
            /\ UNCHANGED procLocals
       ELSE /\ ppc' = [ppc EXCEPT ![p] = "test"]
            /\ ResetCycle(p)
            /\ UNCHANGED <<source_lang, target_lang, last_transcription>>
    /\ UNCHANGED <<vpVars, recVars, cpc, mpc, appended, last_op, delivered,
                   obtained, restVars>>

\* `self.callback(transcription, translation, detected_lang)`: the callback
\* is entered; calling None raises, which ends the cycle.
ProcCallbackCall(p) ==
    /\ ppc[p] = "cbcall"
    /\ IF callback # None
       THEN /\ ppc' = [ppc EXCEPT ![p] = "incb"]
            /\ UNCHANGED procLocals
       ELSE /\ ppc' = [ppc EXCEPT ![p] = "test"]
            /\ ResetCycle(p)
            /\ UNCHANGED <<source_lang, target_lang, last_transcription>>
    /\ UNCHANGED <<vpVars, recVars, cpc, mpc, appended, last_op, delivered,
                   obtained, restVars>>

\* The arguments of the call in progress:
\* `self.callback(transcription, translation, detected_lang)`
CallbackArgs(p) == <<transcription[p], translation[p], detected_lang[p]>>

\* The callback returns or raises; the cycle ends either way.
CallbackReturns(p) ==
    /\ ppc[p] = "incb"
    /\ delivered' = [delivered EXCEPT ![p] = strip(transcription[p])]
    /\ ppc' = [ppc EXCEPT ![p] = "test"]
    /\ ResetCycle(p)
    /\ UNCHANGED <<vpVars, recVars, cpc, source_lang, target_lang,
                   last_transcription, mpc, appended, last_op, obtained,
                   clockVars, whisperVars>>

\* A callback that is not the app's.
ProcCallbackReturn(p) ==
    CallbackReturns(p) /\ UNCHANGED <<appVars, x_call, x_out>>

(* ------------------------------------------ WhisperTranscriber.transcribe *)
\* The largest max_retries a call is made with (the default is 2), the
\* languages it is called with, and the language it reports: "auto-detected"
\* with the current client, the response's language with the legacy one.
MaxRetries == 2
WhisperLanguages == {None, "ru", "ja"}
WhisperDetected == {"auto-detected", "english"}
WhisperTexts == { <<"h">> }

\* What an attempt meets: the file is missing or empty, the request raises,
\* the response has text, the response has none.
AttemptOutcomes == {"nofile", "raises", "text", "empty"}

\* `options["temperature"] = 0.2`, in tenths
InitialTemperature == 2

\* `options["temperature"] = 0.4 + (attempt * 0.2)`, in tenths
RetryTemperature(attempt) == 4 + attempt * 2

\* `options = {}` and the two assignments that follow it in every attempt
AttemptOptions(language) ==
    [language |-> SttLanguageOption(language), temperature |-> InitialTemperature]

\* transcribe(audio_file, language, max_retries) is called: the first
\* iteration of `for attempt in range(max_retries + 1)` begins.
TranscribeCall(language, max_retries) ==
    /\ w_pc = "idle"
    /\ w_pc' = "attempt"
    /\ w_language' = language
    /\ w_max_retries' = max_retries
    /\ w_attempt' = 0
    /\ w_options' = NoOptions
    /\ w_sent' = <<>>
    /\ w_result' = SttFailure
    /\ UNCHANGED <<vpVars, recVars, cpc, ppc, procLocals, mpc, appended,
                   last_op, delivered, obtained, clockVars, appVars, x_call,
                   x_out>>

\* One iteration of the loop: the file checks, the options, the request and
\* what follows from its outcome.
TranscribeAttempt(outcome, text, detected) ==
    /\ w_pc = "attempt"
    /\ IF outcome = "nofile"
       THEN \* `return "", ""` before any request
            /\ w_result' = SttFailure
            /\ w_pc' = "returned"
            /\ UNCHANGED <<w_attempt, w_options, w_sent>>
       ELSE /\ w_sent' = Append(w_sent, AttemptOptions(w_language))
            /\ CASE outcome = "raises" ->
                     \* `except Exception`, then `return "", ""`
                     /\ w_result' = SttFailure
                     /\ w_pc' = "returned"
                     /\ w_options' = AttemptOptions(w_language)
                     /\ UNCHANGED w_attempt
                 [] outcome = "text" ->
                     /\ w_result' = <<text, detected>>
                     /\ w_pc' = "returned"
                     /\ w_options' = AttemptOptions(w_language)
                     /\ UNCHANGED w_attempt
                 [] outcome = "empty" ->
                     IF w_attempt < w_max_retries
                     THEN \* the temperature is set, then `continue`
                          /\ w_options' =
                                [AttemptOptions(w_language) EXCEPT
                                    !.temperature = RetryTemperature(w_attempt)]
                          /\ w_attempt' = w_attempt + 1
                          /\ UNCHANGED <<w_pc, w_result>>
                     ELSE \* `return transcription, detected_language`
                          /\ w_result' = << <<>>, detected >>
                          /\ w_pc' = "returned"
                          /\ w_options' = AttemptOptions(w_language)
                          /\ UNCHANGED w_attempt
    /\ UNCHANGED <<vpVars, recVars, cpc, ppc, procLocals, mpc, appended,
                   last_op, delivered, obtained, clockVars, appVars,
                   w_language, w_max_retries, x_call, x_out>>

\* The caller has the value returned; the next call can be made.
TranscribeReturn ==
    /\ w_pc = "returned"
    /\ w_pc' = "idle"
    /\ w_language' = None
    /\ w_max_retries' = 0
    /\ w_attempt' = 0
    /\ w_options' = NoOptions
    /\ w_sent' = <<>>
    /\ w_result' = SttFailure
    /\ UNCHANGED <<vpVars, recVars, cpc, ppc, procLocals, mpc, appended,
                   last_op, delivered, obtained, clockVars, appVars, x_call,
                   x_out>>

(* --------------------------------------------------- translate functions *)
\* The three translate functions of the repository, the texts and languages
\* they are called with, and what the translation service does with a
\* request.
TranslateImpls == {"transcriber", "translator", "openai_manager"}
TranslateTexts == { <<>>, <<" ">>, <<"h">>, <<" ", "h">>, <<"p">> }
TranslateLangs == {None, "en", "ru", "de"}
Replies == {"text", "raises"}
Translated == <<"t">>

\* The Cyrillic letters among the characters of TranslateTexts ("p" stands
\* for one).
Cyrillic == {"p"}

\* translation/translator.py: `self.supported_languages`,
\* `self.current_target_language`
supported_languages == {"en", "ru", "ja"}
current_target_language == "en"

\* translation/translator.py: detect_language(text)
detect_language(text) ==
    IF text = <<>> THEN "en"
    ELSE IF \E i \in 1..Len(text) : text[i] \in Cyrillic THEN "ru"
    ELSE "en"

\* A request to the translation service and what the function makes of it.
Requested(reply, propagates) ==
    IF reply = "raises"
    THEN [sent |-> TRUE, raised |-> propagates, result |-> <<>>]
    ELSE [sent |-> TRUE, raised |-> FALSE, result |-> Translated]

NotRequested(result) == [sent |-> FALSE, raised |-> FALSE, result |-> result]

\* transcriber.py: Translator.translate(text, source_lang, target_lang)
TranscriberTranslate(text, source, target, reply) ==
    IF text = <<>> \/ strip(text) = <<>>
    THEN NotRequested(<<>>)
    ELSE Requested(reply, FALSE)

\* utils/openai_manager.py: translate_text(text, source_lang, target_lang)
translate_text(text, source, target, reply) ==
    IF text = <<>>
    THEN NotRequested(<<>>)
    ELSE Requested(reply, TRUE)

\* translation/translator.py: Translator.translate(text, source_lang,
\* target_lang)
TranslatorTranslate(text, source, target, reply) ==
    IF text = <<>>
    THEN NotRequested(<<>>)
    ELSE LET src == IF source # None THEN source ELSE detect_language(text)
             tgt == IF target # None THEN target ELSE current_target_language
         IN IF src = tgt
            THEN NotRequested(text)
            ELSE IF tgt \notin supported_languages \/ src \notin supported_languages
            THEN [sent |-> FALSE, raised |-> TRUE, result |-> <<>>]
            ELSE translate_text(text, src, tgt, reply)

\* One call of one of the functions.
TranslateApply(impl, text, source, target, reply) ==
    /\ x_call = NoTranslate
    /\ x_call' = [impl |-> impl, text |-> text, source |-> source,
                  target |-> target]
    /\ x_out' = CASE impl = "transcriber" ->
                        TranscriberTranslate(text, source, target, reply)
                  [] impl = "translator" ->
                        TranslatorTranslate(text, source, target, reply)
                  [] impl = "openai_manager" ->
                        translate_text(text, source, target, reply)
    /\ UNCHANGED <<vpVars, recVars, cpc, ppc, procLocals, mpc, appended,
                   last_op, delivered, obtained, clockVars, appVars, w_pc,
                   w_language, w_max_retries, w_attempt, w_options, w_sent,
                   w_result>>

\* The caller has the result; the next call can be made.
TranslateReturn ==
    /\ x_call # NoTranslate
    /\ x_call' = NoTranslate
    /\ x_out' = NoOutcome
    /\ UNCHANGED <<vpVars, recVars, cpc, ppc, procLocals, mpc, appended,
                   last_op, delivered, obtained, clockVars, appVars, w_pc,
                   w_language, w_max_retries, w_attempt, w_options, w_sent,
                   w_result>>

(* -------------------------------------------------------- TranslationApp *)
\* The button handlers run one at a time (one keyboard thread, or the Tk
\* main loop); the result callback runs on the processing thread. Calls of
\* the GUI toolkit succeed, except where the handler has its own `except`.

\* `self.cooldown_period = 1.0`; the app's clock readings are in seconds.
cooldown_period == 1

\* The largest reading of the clock.
MaxClock == 4

\* `current_time = time.time()` as a handler may read it: not earlier than
\* the reading the app stored last.
ClockReadings == {t \in 1..MaxClock : t >= last_action_time}

\* The buttons with a registered callback.
Buttons == {"button1", "button3"}

\* `len(self.scenes)`
NumScenes == 3

\* `self.language_settings[i]["target"]`
SceneTarget(i) == IF i = 1 THEN "ru" ELSE "en"

\* `if current_time - self.last_action_time < self.cooldown_period`
InCooldown == current_time - last_action_time < cooldown_period

\* Faults: switch_scene without its test of is_scene_active; live
\* transcription started in every scene; the callback without its test.
NeverSceneActive == FALSE
EveryScene(i) == TRUE
NeverStale == FALSE

\* switch_scene: `if self.is_scene_active`
SceneActive == is_scene_active

\* handle_scene_action: the scenes whose branch calls
\* start_live_transcription
SceneWithLiveTranscription(i) == i \in {0, 1}

\* update_live_transcription: `if not self.live_transcription_active`
CallbackStale == ~live_transcription_active

pipeVars == <<vpVars, recVars, cpc, ppc, procLocals, mpc, appended, last_op,
              delivered, obtained>>
appFlags == <<is_scene_active, live_transcription_active, app_is_recording,
              is_processing, is_showing_results>>

\* The five flags are assigned False.
FlagsReset ==
    /\ is_scene_active' = FALSE
    /\ live_transcription_active' = FALSE
    /\ app_is_recording' = FALSE
    /\ is_processing' = FALSE
    /\ is_showing_results' = FALSE

\* InputHandler._button_callback: the registered callback is entered and
\* reads the clock.
Press(button, t) ==
    /\ app_pc = "idle"
    /\ app_pc' = button
    /\ current_time' = t
    /\ UNCHANGED <<pipeVars, clockVars, callVars, current_scene_index,
                   appFlags, camera_active, last_action_time, display,
                   app_op>>

\* A handler returns without having done anything.
Ignored(why) ==
    /\ app_pc' = "idle"
    /\ app_op' = why
    /\ UNCHANGED <<pipeVars, clockVars, callVars, current_scene_index,
                   appFlags, camera_active, last_action_time, display,
                   current_time>>

\* switch_scene (Button 1) up to the end of the call of
\* stop_live_transcription that reset_state may make.
switch_scene ==
    /\ app_pc = "button1"
    /\ IF InCooldown
       THEN Ignored("cooldown")
       ELSE IF SceneActive
       THEN Ignored("switch_ignored")
       ELSE /\ app_pc' = "switching"
            /\ IF live_transcription_active
               THEN StopSession
               ELSE UNCHANGED <<pipeVars, clockVars, callVars>>
            /\ UNCHANGED <<current_scene_index, appFlags, camera_active,
                           last_action_time, display, current_time, app_op>>

\* switch_scene from there: the rest of stop_current_processes and of
\* reset_state, the next scene, the flags, last_action_time.
SwitchDone ==
    /\ app_pc = "switching"
    /\ mpc = "idle"
    /\ camera_active' = FALSE
    /\ current_scene_index' = (current_scene_index + 1) % NumScenes
    /\ FlagsReset
    /\ display' = "scene"
    /\ last_action_time' = current_time
    /\ app_pc' = "idle"
    /\ app_op' = "switched"
    /\ UNCHANGED <<pipeVars, clockVars, callVars, current_time>>

\* TranslationApp.start_live_transcription, called by handle_scene_action.
app_start_live_transcription ==
    IF live_transcription_active
    THEN UNCHANGED <<pipeVars, clockVars, callVars,
                     live_transcription_active, display>>
    ELSE /\ display' = "listening"
         /\ live_transcription_active' = TRUE
         /\ StartSession(None, SceneTarget(current_scene_index), "cb1")

\* handle_scene_action (Button 3): the cooldown; with a scene active or
\* results showing, up to the end of the call of stop_live_transcription;
\* otherwise the whole activation.
handle_scene_action ==
    /\ app_pc = "button3"
    /\ IF InCooldown
       THEN Ignored("cooldown")
       ELSE /\ last_action_time' = current_time
            /\ IF is_scene_active \/ is_showing_results
               THEN /\ StopSession
                    /\ app_pc' = "exit"
                    /\ UNCHANGED <<current_scene_index, appFlags,
                                   camera_active, display, app_op>>
               ELSE /\ app_pc' = "idle"
                    /\ IF SceneWithLiveTranscription(current_scene_index)
                       THEN /\ is_scene_active' = TRUE
                            /\ app_start_live_transcription
                            /\ app_op' = "activated"
                            /\ UNCHANGED <<is_showing_results,
                                           camera_active>>
                       ELSE /\ camera_active' = TRUE
                            /\ \/ /\ is_scene_active' = TRUE
                                  /\ display' = "camera"
                                  /\ app_op' = "activated"
                                  /\ UNCHANGED is_showing_results
                               \/ /\ is_scene_active' = FALSE
                                  /\ display' = "error"
                                  /\ is_showing_results' = TRUE
                                  /\ app_op' = "camera_error"
                            /\ UNCHANGED <<pipeVars, clockVars, callVars,
                                           live_transcription_active>>
            /\ UNCHANGED <<current_scene_index, app_is_recording,
                           is_processing, current_time>>

\* handle_scene_action after stop_live_transcription has returned: the
\* flags, stop_current_processes, the scene made anew.
ExitScene ==
    /\ app_pc = "exit"
    /\ mpc = "idle"
    /\ FlagsReset
    /\ camera_active' = FALSE
    /\ display' = "scene"
    /\ last_action_time' = current_time
    /\ app_pc' = "idle"
    /\ app_op' = "exit"
    /\ UNCHANGED <<pipeVars, clockVars, callVars, current_scene_index,
                   current_time>>

\* update_live_transcription: the source language of the translation it
\* requests itself
AppSource(d) ==
    IF d = None \/ d = "" THEN "en"
    ELSE IF lower(d) \in {"english", "en"} THEN "en"
    ELSE IF lower(d) \in {"russian", "ru"} THEN "ru"
    ELSE IF lower(d) \in {"korean", "ko"} THEN "ko"
    ELSE "en"

\* update_live_transcription(transcription, translation, detected_lang),
\* the callback the app registers, run by processing thread p.
update_live_transcription(p, reply) ==
    /\ CallbackReturns(p)
    /\ IF CallbackStale
       THEN /\ app_op' = "callback_ignored"
            /\ UNCHANGED <<display, x_call, x_out>>
       ELSE /\ app_op' = "callback_shown"
            /\ display' = "live"
            /\ IF /\ current_scene_index = 1
                  /\ transcription[p] # <<>>
                  /\ translation[p] \in {None, ""}
               THEN /\ x_call' = [impl |-> "transcriber",
                                  text |-> transcription[p],
                                  source |-> AppSource(detected_lang[p]),
                                  target |-> SceneTarget(1)]
                    /\ x_out' = TranscriberTranslate(transcription[p],
                                     AppSource(detected_lang[p]),
                                     SceneTarget(1), reply)
               ELSE UNCHANGED <<x_call, x_out>>
    /\ UNCHANGED <<current_scene_index, appFlags, camera_active,
                   last_action_time, app_pc, current_time>>

(* --------------------------------------------------------- specification *)
\* The steps of the joins and of the capture and processing threads, with
\* the transcripts and language strings the STT service may return. The
\* poll and the return of the callback are added by each specification.
ThreadSteps(texts, langs) ==
    \/ JoinRecording
    \/ JoinProcessing
    \/ \E c \in CapIds :
          \/ CapOpen(c)
          \/ CapTest(c)
          \/ CapAppend(c)
          \/ CapReadError(c)
          \/ CapCheck(c)
          \/ CapTrim(c)
    \/ \E p \in ProcIds :
          \/ ProcTest(p)
          \/ ProcCopy(p)
          \/ ProcClear(p)
          \/ \E text \in texts, lang \in langs : ProcTranscribed(p, text, lang)
          \/ ProcDecide(p)
          \/ ProcSegmentError(p)
          \/ \E result \in Translations : ProcTranslated(p, result)
          \/ ProcCallbackTest(p)
          \/ ProcCallbackCall(p)

\* The calls of start and stop, as any caller may make them.
ControlSteps(sources, targets, callbacks) ==
    \/ \E src \in sources, tgt \in targets, cb \in callbacks :
            start_live_transcription(src, tgt, cb)
    \/ StopBegin

\* One step of the program, with the poll that leaves the clock out.
StepOn(texts, langs, sources, targets, callbacks) ==
    \/ ControlSteps(sources, targets, callbacks)
    \/ ThreadSteps(texts, langs)
    \/ \E p \in ProcIds : ProcPoll(p)
    \/ \E p \in ProcIds : ProcCallbackReturn(p)

\* One step with the language strings, source languages and callbacks of
\* the session specifications.
Step(texts, targets) == StepOn(texts, SttLangs, SourceLangs, targets, Callbacks)

\* Sessions and buffer: every thread interleaving, one spoken phrase.
Next == Step(SessionTexts, TargetLangs)

Spec == Init /\ [][Next]_vars

\* Transcripts and callbacks: every STT result, while no capture thread
\* outlives its session.
OneCapture == Cardinality({c \in CapIds : CapAlive(c)}) <= 1

\* ... and at most one processing thread is past its poll.
OneCycle ==
    Cardinality({p \in ProcIds : ppc[p] \notin {"none", "test", "poll"}}) <= 1

NextDedup == Step(Texts, TargetLangs) /\ OneCapture' /\ OneCycle'

SpecDedup == Init /\ [][NextDedup]_vars

\* Steps a thread takes by itself, as distinct from the return of a blocking
\* call (device read; STT, translation, callback), which may never come.
CapRuns(c) == CapOpen(c) \/ CapTest(c) \/ CapCheck(c) \/ CapTrim(c)

ProcRuns(p) ==
    \/ ProcTest(p)
    \/ ProcPoll(p)
    \/ ProcCopy(p)
    \/ ProcClear(p)
    \/ ProcDecide(p)
    \/ ProcCallbackTest(p)
    \/ ProcCallbackCall(p)

\* Stop under fair scheduling: a running thread is scheduled again, a bounded
\* join returns; blocking calls need not return.
StopTexts == { <<"h">> }
StopCallbacks == { "cb1" }

NextStop == StepOn(StopTexts, SttLangs, SourceLangs, TargetLangs, StopCallbacks)

SpecStop ==
    /\ Init
    /\ [][NextStop]_vars
    /\ WF_vars(JoinRecording)
    /\ WF_vars(JoinProcessing)
    /\ \A c \in CapIds : WF_vars(CapRuns(c))
    /\ \A p \in ProcIds : WF_vars(ProcRuns(p))

\* Routing: the language strings the STT service may report ("auto-detected"
\* is what transcribe reports with the current client) and the source and
\* target languages a session may be started with, None included.
RoutingTexts == { <<"h">> }
RoutingLangs == {"", "english", "Russian", "japanese", "auto-detected"}
RoutingSources == {None, "ru"}
RoutingTargets == {None, "ru", "en", "ja"}
RoutingCallbacks == { "cb1" }

\* Schedules of the routing specification: no processing thread outlives
\* its session, and the device delivers no chunk while a cycle is between
\* its drain and its end.
OneProcessing == Cardinality({p \in ProcIds : ProcAlive(p)}) <= 1

QuietCycle ==
    (\E p \in ProcIds : ppc[p] \in {"stt", "got", "translate", "cbtest",
                                    "cbcall", "incb"})
        => frames = <<>>

NextRouting ==
    /\ StepOn(RoutingTexts, RoutingLangs, RoutingSources, RoutingTargets,
              RoutingCallbacks)
    /\ OneCapture'
    /\ OneProcessing'
    /\ QuietCycle'

SpecRouting == Init /\ [][NextRouting]_vars

\* Normalization: language strings in the spellings an STT service may
\* report, with the schedules of the routing specification.
NormalizeLangs ==
    {"", "english", "English", "en", "EN", "russian", "Russian", "ru",
     "RU", "spanish", "Spanish", "es", "ES", "french", "French", "fr",
     "FR", "german", "German", "de", "DE", "japanese", "Japanese", "ja",
     "JA", "italian", "Italian", "it", "IT", "chinese", "Chinese", "zh",
     "ZH", "korean", "Korean", "ko", "KO", "klingon", "auto-detected"}

NextNormalize ==
    /\ StepOn(RoutingTexts, NormalizeLangs, SourceLangs, TargetLangs,
              RoutingCallbacks)
    /\ OneCapture'
    /\ OneProcessing'
    /\ QuietCycle'

SpecNormalize == Init /\ [][NextNormalize]_vars

\* Polling: the processing loop with the clock, one spoken phrase, and the
\* schedules of the routing specification.
PollTexts == { <<"h">> }
PollLangs == { "" }
PollCallbacks == { "cb1" }

NextPoll ==
    /\ \/ ControlSteps(SourceLangs, TargetLangs, PollCallbacks)
       \/ ThreadSteps(PollTexts, PollLangs)
       \/ \E p \in ProcIds : ProcPollTimed(p)
       \/ \E p \in ProcIds : ProcCallbackReturn(p)
       \/ Tick
    /\ OneCapture'
    /\ OneProcessing'
    /\ QuietCycle'

SpecPoll == Init /\ [][NextPoll]_vars

\* Calls of transcribe, with every outcome of every attempt.
NextTranscribe ==
    \/ \E language \in WhisperLanguages, max_retries \in 0..MaxRetries :
            TranscribeCall(language, max_retries)
    \/ \E outcome \in AttemptOutcomes, text \in WhisperTexts,
          detected \in WhisperDetected :
            TranscribeAttempt(outcome, text, detected)
    \/ TranscribeReturn

SpecTranscribe == Init /\ [][NextTranscribe]_vars

\* Calls of the translate functions, with every reply of the service.
NextTranslate ==
    \/ \E impl \in TranslateImpls, text \in TranslateTexts,
          source \in TranslateLangs, target \in TranslateLangs,
          reply \in Replies :
            TranslateApply(impl, text, source, target, reply)
    \/ TranslateReturn

SpecTranslate == Init /\ [][NextTranslate]_vars

\* The app: the two buttons pressed at any time, one spoken phrase, the
\* schedules of the routing specification. Only the app calls start and
\* stop.
AppTexts == { <<"h">> }
AppLangs == { "" }

NextApp ==
    /\ \/ \E button \in Buttons, t \in ClockReadings : Press(button, t)
       \/ switch_scene
       \/ SwitchDone
       \/ handle_scene_action
       \/ ExitScene
       \/ ThreadSteps(AppTexts, AppLangs)
       \/ \E p \in ProcIds : ProcPoll(p)
       \/ \E p \in ProcIds, reply \in Replies :
                update_live_transcription(p, reply)
    /\ OneCapture'
    /\ OneProcessing'
    /\ QuietCycle'

SpecApp == Init /\ [][NextApp]_vars

(* ================================================================ claims *)
Increasing(f) == \A i \in 1..(Len(f) - 1) : f[i] < f[i + 1]

\* Capture threads inside an iteration of the capture loop, and processing
\* threads that have passed the loop test.
CaptureLoops == {c \in CapIds : cpc[c] \in {"read", "check", "trim"}}
ProcessingLoops == {p \in ProcIds : ppc[p] \notin {"none", "test"}}

\* The caller is outside start and stop, and the last call that took effect
\* was a stop: stop has returned and no start has followed.
Stopped == ~live_mode /\ mpc = "idle"

\* C1: in every reachable state at most one capture loop and at most one
\* processing loop are running against the rolling buffer.
C1_OneLoopOfEachKind ==
    /\ Cardinality(CaptureLoops) <= 1
    /\ Cardinality(ProcessingLoops) <= 1

\* C2: the rolling buffer never holds more than max_frames chunks, between an
\* append and its trim included, and neither does the content of a drain.
C2_BufferBounded ==
    /\ Len(frames) <= max_frames
    /\ \A p \in ProcIds : Len(frames_copy[p]) <= max_frames

\* C3 (as claimed): a drain returns exactly the chunks appended since the
\* buffer was last emptied, every one of them, in append order.
C3_DrainReturnsAllAppended ==
    \A p \in ProcIds :
        ppc[p] = "clear" /\ frames_lock = p /\ frames # <<>>
            => frames_copy[p] = [i \in 1..appended |-> i]

\* C3 (amended): the buffer holds only chunks appended since it was last
\* emptied, each once and in append order, so that a drain returns no chunk
\* a previous drain returned and returns its chunks in append order; chunks
\* evicted by the trim are returned by no drain.
C3_DrainReturnsBuffer ==
    /\ Increasing(frames)
    /\ \A i \in 1..Len(frames) : frames[i] \in 1..appended
    /\ \A p \in ProcIds :
          /\ Increasing(frames_copy[p])
          /\ ppc[p] = "clear" /\ frames # <<>> => frames_copy[p] = frames

\* C3 witness: a drain that returns fewer chunks than were appended.
C3_Witness ==
    \E p \in ProcIds :
        /\ ppc[p] = "clear"
        /\ frames_copy[p] # <<>>
        /\ Len(frames_copy[p]) < appended

\* C4: while a drain is between its copy and its clear the buffer is the
\* drained copy (or was reset by a start), no step of another thread appends
\* to it or trims it, and the step that ends the drain leaves it empty.
C4_DrainIndivisible ==
    [][\A p \in ProcIds :
          ppc[p] = "clear" =>
              /\ frames_lock = p
              /\ frames \in {frames_copy[p], <<>>}
              /\ frames' \in {frames, <<>>}
              /\ ppc'[p] # "clear" => frames' = <<>>]_vars

\* C4 witness: a drain in progress while a capture thread waits with a chunk
\* to append or with a trim to do.
C4_Witness ==
    \E p \in ProcIds, c \in CapIds :
        /\ ppc[p] = "clear"
        /\ Len(frames_copy[p]) > max_frames
        /\ cpc[c] = "trim"

\* C5: within one processing loop no two consecutively delivered LiveResults
\* have equal trimmed transcripts.
C5_NoEqualConsecutiveResults ==
    \A p \in ProcIds :
        ppc[p] = "incb" => strip(transcription[p]) # delivered[p]

\* A cycle holds a transcript that is neither empty nor a duplicate and has
\* not invoked the callback yet.
FreshCycle(p) ==
    \/ /\ ppc[p] = "got"
       /\ ~IsEmptyTranscription(transcription[p])
       /\ strip(transcription[p]) # strip(last_transcription[p])
    \/ ppc[p] \in {"translate", "cbtest", "cbcall"}

\* C6 (as claimed): a cycle with a non-empty, non-duplicate transcript
\* invokes the callback exactly once.
C6_FreshInvokesCallback ==
    [][\A p \in ProcIds :
          /\ FreshCycle(p) => FreshCycle(p)' \/ ppc'[p] = "incb"
          /\ ppc[p] = "incb" => ppc'[p] \in {"incb", "test"}]_vars

\* C6 (amended): such a cycle invokes the callback exactly once when a
\* callback is registered where the cycle tests and calls self.callback, and
\* ends without an invocation only when self.callback is None there; no cycle
\* invokes the callback more than once.
C6_FreshInvokesRegisteredCallback ==
    [][\A p \in ProcIds :
          /\ FreshCycle(p) =>
                \/ FreshCycle(p)'
                \/ ppc'[p] = "incb"
                \/ ppc[p] \in {"cbtest", "cbcall"} /\ callback = None
          /\ ppc[p] = "incb" => ppc'[p] \in {"incb", "test"}]_vars

\* C6 witness: a transcript is being delivered right after a different one.
C6_Witness ==
    \E p \in ProcIds :
        /\ ppc[p] = "incb"
        /\ delivered[p] = <<"w">>
        /\ strip(transcription[p]) = <<"h">>

\* C7: a start while the session is Active changes nothing: no thread is
\* started, and callback, buffer and flags are as before.
C7_StartWhileActiveIsNoOp ==
    [][(live_mode /\ \E src \in SourceLangs, tgt \in TargetLangs, cb \in Callbacks :
                        start_live_transcription(src, tgt, cb))
          => UNCHANGED <<vpVars, recVars, cpc, ppc, procLocals, mpc, appended,
                         delivered, obtained, restVars>>]_vars

\* C7 witness: start was called on an Active session with its threads alive.
C7_Witness ==
    /\ last_op = "start_noop"
    /\ live_mode
    /\ callback = "cb1"
    /\ \E c \in CapIds : CapAlive(c)
    /\ \E p \in ProcIds : ProcAlive(p)

\* C8: a stop while the session is Idle changes neither the session flags nor
\* the recorder.
C8_StopWhileIdleIsNoOp ==
    [][(~live_mode /\ StopBegin)
          => UNCHANGED <<vpVars, recVars, cpc, ppc, procLocals, mpc, appended,
                         delivered, obtained, restVars>>]_vars

\* C8 witness: stop was called on an Idle session, after an earlier session.
C8_Witness ==
    /\ last_op = "stop_noop"
    /\ ~live_mode
    /\ processing_thread # NoThread

\* C9: at most one invocation of the callback is in progress.
C9_CallbacksNeverOverlap ==
    Cardinality({p \in ProcIds : ppc[p] = "incb"}) <= 1

\* C10 (as claimed): once stop has returned and until a later start, no STT
\* call, translation call or callback invocation begins.
C10_NothingAfterStop ==
    [][Stopped => \A p \in ProcIds :
                      ppc'[p] \in ExternalCalls => ppc'[p] = ppc[p]]_vars

\* C10 (amended): once stop has returned and until a later start, no
\* processing loop passes its loop test, so no new cycle begins.
C10_NoNewCycleAfterStop ==
    [][Stopped => \A p \in ProcIds : ppc'[p] = "poll" => ppc[p] = "poll"]_vars

\* C10 witness: stop has returned while a processing loop is still inside a
\* cycle, blocked in the STT call.
C10_Witness ==
    /\ Stopped
    /\ last_op = "stop"
    /\ \E p \in ProcIds : ppc[p] = "stt"

\* The session is Idle: both flags are off and the recorder is not recording.
Idle == ~live_mode /\ ~should_process /\ ~is_recording

\* C11: a stop of an Active session completes and leaves the session Idle,
\* whether or not the joined threads ended within the join's bound.
C11_StopCompletesIdle == (mpc # "idle") ~> (mpc = "idle" /\ Idle)

\* C11 witness: stop has returned, the session is Idle, and the capture
\* thread and the processing thread it joined are both still alive.
C11_Witness ==
    /\ mpc = "idle"
    /\ last_op = "stop"
    /\ Idle
    /\ CapAlive(recording_thread)
    /\ ProcAlive(processing_thread)

\* Threads of a stopped session: alive although the session is not Active,
\* or alive next to the thread a later start created.
StoppedCapture(c) == CapAlive(c) /\ (~live_mode \/ c # recording_thread)
StoppedProcessing(p) == ProcAlive(p) /\ (~live_mode \/ p # processing_thread)

\* C12: after stop, whatever calls follow, the capture loop of the stopped
\* session begins no further read and its processing loop begins no further
\* cycle: each finishes the one in progress at most.
C12_StoppedLoopsWindDown ==
    [][/\ \A c \in CapIds :
             StoppedCapture(c) => ~(cpc[c] = "test" /\ cpc'[c] = "read")
       /\ \A p \in ProcIds :
             StoppedProcessing(p) => ~(ppc[p] = "test" /\ ppc'[p] = "poll")]_vars

\* C13: a failed device read in the capture loop of the Active session ends
\* the session: it is no longer Active and the recorder no longer records.
C13_ReadFailureEndsSession ==
    [][\A c \in CapIds :
          (live_mode /\ c = recording_thread /\ CapReadError(c))
              => (~live_mode' /\ ~is_recording')]_vars

\* C14: a cycle whose STT call failed delivers nothing and returns to the
\* loop test, and a processing loop ends only at its loop test, with the
\* flag off: never because an STT or translation call failed.
C14_SttFailureSkipsCycle ==
    [][\A p \in ProcIds :
          /\ (ppc[p] = "got" /\ <<transcription[p], detected_lang[p]>> = SttFailure)
                => ppc'[p] \in {"got", "test"}
          /\ (ProcAlive(p) /\ ~ProcAlive(p)')
                => (ppc[p] = "test" /\ ~should_process)]_vars

\* C14 witness: the STT call failed in a loop that has delivered a result
\* before and whose session is still Active.
C14_Witness ==
    \E p \in ProcIds :
        /\ ppc[p] = "got"
        /\ <<transcription[p], detected_lang[p]>> = SttFailure
        /\ delivered[p] = <<"h">>
        /\ should_process

\* A cycle whose translation call failed (translate returned "") is on its
\* way to the callback.
FailedTranslation(p) == ppc[p] \in {"cbtest", "cbcall"} /\ translation[p] = ""

\* C15 (as claimed): the return of the translation call never ends the
\* cycle, and a cycle whose translation failed invokes the callback with
\* its transcript and an empty translation.
C15_FailedTranslationStillDelivers ==
    [][\A p \in ProcIds :
          /\ (ppc[p] = "translate" /\ ppc'[p] # "translate")
                => (ppc'[p] = "cbtest" /\ transcription'[p] = transcription[p])
          /\ FailedTranslation(p)
                => \/ FailedTranslation(p)'
                   \/ /\ ppc'[p] = "incb"
                      /\ translation'[p] = ""
                      /\ transcription'[p] = transcription[p]]_vars

\* C15 (amended): the same, except that the cycle ends without an invocation
\* when self.callback is None where the cycle tests or calls it.
C15_FailedTranslationDeliversIfRegistered ==
    [][\A p \in ProcIds :
          /\ (ppc[p] = "translate" /\ ppc'[p] # "translate")
                => (ppc'[p] = "cbtest" /\ transcription'[p] = transcription[p])
          /\ FailedTranslation(p)
                => \/ FailedTranslation(p)'
                   \/ /\ ppc'[p] = "incb"
                      /\ translation'[p] = ""
                      /\ transcription'[p] = transcription[p]
                   \/ callback = None]_vars

\* C15 witness: the callback is running with a transcript and the empty
\* translation of a failed translation call.
C15_Witness ==
    \E p \in ProcIds :
        /\ ppc[p] = "incb"
        /\ translation[p] = ""
        /\ transcription[p] = <<"h">>

(* ---------------------------------------------------------------- routing *)
\* The canonical codes, and the spellings of each that normalization accepts:
\* the full language name and the two-letter code, in any case.
CanonicalCodes == {"en", "ru", "es", "fr", "de", "ja", "it", "zh", "ko"}

Spellings(c) ==
    CASE c = "en" -> {"english", "English", "ENGLISH", "en", "EN"}
      [] c = "ru" -> {"russian", "Russian", "RUSSIAN", "ru", "RU"}
      [] c = "es" -> {"spanish", "Spanish", "SPANISH", "es", "ES"}
      [] c = "fr" -> {"french", "French", "FRENCH", "fr", "FR"}
      [] c = "de" -> {"german", "German", "GERMAN", "de", "DE"}
      [] c = "ja" -> {"japanese", "Japanese", "JAPANESE", "ja", "JA"}
      [] c = "it" -> {"italian", "Italian", "ITALIAN", "it", "IT"}
      [] c = "zh" -> {"chinese", "Chinese", "CHINESE", "zh", "ZH"}
      [] c = "ko" -> {"korean", "Korean", "KOREAN", "ko", "KO"}

\* The canonical code of a reported language; None (unknown) when nothing
\* was reported or the string spells none of the nine languages.
CanonicalLanguage(d) ==
    IF \E c \in CanonicalCodes : d \in Spellings(c)
    THEN CHOOSE c \in CanonicalCodes : d \in Spellings(c)
    ELSE None

\* Effective source: the configured source if present, else the detected
\* language, else en.
EffectiveSource(p) ==
    IF source_lang[p] # None THEN source_lang[p]
    ELSE IF CanonicalLanguage(detected_lang[p]) # None
         THEN CanonicalLanguage(detected_lang[p])
         ELSE "en"

\* The step in which a cycle with an accepted transcript makes its routing
\* decision: tr_request'[p] is the translate call it decided on, or NoCall.
Decides(p) == ppc[p] = "got" /\ ppc'[p] \in {"translate", "cbtest"}

C17_OtherLanguageToTarget ==
    [][\A p \in ProcIds :
          (/\ Decides(p)
           /\ target_lang[p] # None
           /\ CanonicalLanguage(detected_lang[p]) \notin {None, "en", "ru"})
              => /\ ppc'[p] = "translate"
                 /\ tr_request'[p] =
                        <<CanonicalLanguage(detected_lang[p]), target_lang[p]>>]_vars

\* C17 witness: a cycle is calling translate from ja to en.
C17_Witness ==
    \E p \in ProcIds :
        /\ ppc[p] = "translate"
        /\ detected_lang[p] = "japanese"
        /\ target_lang[p] = "en"
        /\ tr_request[p] = <<"ja", "en">>

\* C18: with no target configured (and no source configured), a transcript
\* detected as en is translated en -> ru and one detected as another
\* language is translated to en.
C18_DefaultTarget ==
    [][\A p \in ProcIds :
          (/\ Decides(p)
           /\ target_lang[p] = None
           /\ source_lang[p] = None
           /\ CanonicalLanguage(detected_lang[p]) \in {"en", "ru", "ja"})
              => tr_request'[p] =
                    IF EffectiveSource(p) = "en" THEN <<"en", "ru">>
                    ELSE <<EffectiveSource(p), "en">>]_vars

\* C19: the translation service is never called with equal source and target
\* languages.
C19_NoSelfTranslation ==
    \A p \in ProcIds :
        ppc[p] = "translate" => tr_request[p][1] # tr_request[p][2]

\* C20: the source language passed to the translation service is the
\* effective source, and a cycle whose effective source is en with target ru
\* configured calls translate en -> ru.
C20_EffectiveSourceUsed ==
    [][\A p \in ProcIds :
          Decides(p) =>
              /\ ppc'[p] = "translate" => tr_request'[p][1] = EffectiveSource(p)
              /\ (EffectiveSource(p) = "en" /\ target_lang[p] = "ru")
                    => tr_request'[p] = <<"en", "ru">>]_vars

(* ---------------------------------------------------------- normalization *)
\* C21: for every spelling of one of the nine languages (full name or
\* two-letter code, any case) the code the cycle standardizes the reported
\* language to is the canonical code of that language.
C21_NormalizeKnownSpellings ==
    \A p \in ProcIds :
        (ppc[p] = "got" /\ CanonicalLanguage(detected_lang[p]) # None)
            => detected_lang_code(detected_lang[p])
                   = CanonicalLanguage(detected_lang[p])

\* C21 witness: a cycle holds the upper-case code "EN" as reported language.
C21_Witness ==
    \E p \in ProcIds :
        /\ ppc[p] = "got"
        /\ detected_lang[p] = "EN"
        /\ detected_lang_code(detected_lang[p]) = "en"

\* C22: whatever language string the STT service reports, the code the cycle
\* standardizes it to is one of the nine canonical codes or unknown (None),
\* and it is unknown for an empty and for an unmapped string.
C22_NormalizeTotalClosed ==
    \A p \in ProcIds :
        ppc[p] = "got" =>
            /\ detected_lang_code(detected_lang[p]) \in CanonicalCodes \cup {None}
            /\ CanonicalLanguage(detected_lang[p]) = None
                  => detected_lang_code(detected_lang[p]) = None

\* C23: the detected language a callback receives is the canonical code of
\* the language the STT service reported (en for "english").
C23_DeliversCanonicalLanguage ==
    \A p \in ProcIds :
        (ppc[p] = "incb" /\ CanonicalLanguage(detected_lang[p]) # None)
            => CallbackArgs(p)[3] = CanonicalLanguage(detected_lang[p])

(* ---------------------------------------------------------------- cycles *)
\* C24: the first non-empty transcript a session with a callback obtains is
\* not dropped as a duplicate: the cycle that holds it goes on towards the
\* callback.
C24_FirstTranscriptOfSessionDelivered ==
    [][\A p \in ProcIds :
          (/\ ppc[p] = "got"
           /\ live_mode
           /\ callback # None
           /\ ~obtained
           /\ strip(transcription[p]) # <<>>
           /\ ppc'[p] # "got")
              => ppc'[p] \in {"translate", "cbtest"}]_vars

\* C25: a cycle enters the STT call only from a drain of more than min_chunks
\* chunks; a cycle that finds the buffer empty ends having changed nothing;
\* a cycle that drained min_chunks chunks or fewer ends with the chunks
\* discarded, no STT call and no callback.
C25_SttOnlyAfterEnoughAudio ==
    [][\A p \in ProcIds :
          /\ (ppc'[p] = "stt" /\ ppc[p] # "stt")
                => (ppc[p] = "clear" /\ Len(frames_copy[p]) > min_chunks)
          /\ (ppc[p] = "poll" /\ frames = <<>> /\ ppc'[p] # "poll")
                => /\ ppc'[p] = "test"
                   /\ UNCHANGED <<vpVars, recVars, cpc, procLocals, mpc,
                                  appended, last_op, delivered, obtained, restVars>>
          /\ (/\ ppc[p] = "clear"
              /\ Len(frames_copy[p]) <= min_chunks
              /\ ppc'[p] # "clear")
                => /\ ppc'[p] = "test"
                   /\ frames_copy'[p] = <<>>
                   /\ UNCHANGED <<transcription, translation, tr_request,
                                  last_transcription, delivered>>]_vars

\* C25 witness: a cycle has drained some chunks, but not more than
\* min_chunks, and is about to discard them.
C25_Witness ==
    \E p \in ProcIds :
        /\ ppc[p] = "clear"
        /\ frames_copy[p] # <<>>
        /\ Len(frames_copy[p]) <= min_chunks

\* C26: the transcript passed to the callback is never empty after trimming.
C26_NoCallbackForBlankTranscript ==
    \A p \in ProcIds :
        ppc[p] \in {"cbcall", "incb"} => strip(CallbackArgs(p)[1]) # <<>>

\* C26 witness: a loop that has delivered a result holds a transcript of
\* white space only.
C26_Witness ==
    \E p \in ProcIds :
        /\ ppc[p] = "got"
        /\ transcription[p] = <<" ">>
        /\ delivered[p] = <<"h">>

\* C27: the language hint of an STT request is the source language of the
\* session, and there is none (None) when no source language is configured.
C27_SttHintIsConfiguredSource ==
    \A p \in ProcIds :
        ppc[p] = "stt" => SttRequestLanguage(p) = source_lang[p]

(* ---------------------------------------------------------------- buffer *)
\* C28: the buffer is read and written only by the thread that holds the
\* lock: while a thread is inside its critical section, the capture loop
\* does not read the buffer's length, no processing loop tests the buffer,
\* start_recording does not replace it and stop_recording does not read it.
C28_BufferAccessUnderLock ==
    [][frames_lock # NoThread =>
          /\ \A c \in CapIds : cpc[c] = "check" => cpc'[c] = "check"
          /\ \A p \in ProcIds : ppc[p] = "poll" => ppc'[p] # "copy"
          /\ ~(~is_recording /\ is_recording')
          /\ ~(mpc = "join_rec" /\ mpc' = "join_proc")]_vars

\* C29: the buffer holds, in append order, the most recent chunks appended
\* since it was last emptied: eviction removes the oldest chunks only.
C29_BufferIsSuffixOfAppended ==
    /\ Len(frames) <= appended
    /\ frames = [i \in 1..Len(frames) |-> appended - Len(frames) + i]

\* C29 witness: chunks have been evicted from a buffer that still holds the
\* chunks appended after them.
C29_Witness ==
    /\ Len(frames) = max_frames
    /\ Len(frames) < appended

(* -------------------------------------------------------------- segments *)
\* C30: no cycle ends while its segment file exists: the file is removed on
\* every path of the cycle.
C30_SegmentDiscardedOnEveryPath ==
    [][\A p \in ProcIds :
          (ppc[p] # "test" /\ ppc'[p] = "test") => ~SegmentExists(p)]_vars

(* ----------------------------------------------------- dedup reference *)
\* C33: between cycles the last emitted transcript of a loop is the trimmed
\* transcript of the result the loop last delivered to the callback, and is
\* empty when it has delivered none.
C33_DedupReferenceIsLastDelivered ==
    \A p \in ProcIds :
        ppc[p] = "test" =>
            last_transcription[p] =
                (IF delivered[p] = NotYet THEN <<>> ELSE delivered[p])

(* ------------------------------------------------------ recording flag *)
\* C39: when no capture thread is alive and no call of start or stop is in
\* progress, is_recording is false.
C39_NoCaptureThreadMeansNotRecording ==
    (mpc = "idle" /\ \A c \in CapIds : ~CapAlive(c)) => ~is_recording

C34_FailedAttemptIsRetried ==
    [][(/\ w_pc = "attempt"
        /\ Len(w_sent') > Len(w_sent)
        /\ w_attempt < w_max_retries
        /\ w_pc' = "returned")
           => w_result'[1] # <<>>]_vars

\* C35: each retry's request is sent with a higher temperature than the
\* request of the attempt before it.
C35_RetriesRaiseTemperature ==
    \A i \in 2..Len(w_sent) :
        w_sent[i].temperature > w_sent[i - 1].temperature

(* ------------------------------------------------------------- translate *)
\* C31: a translate function called with an empty text or with white space
\* only sends no request and returns the empty string.
C31_BlankTextShortCircuits ==
    (x_call.impl # "none" /\ strip(x_call.text) = <<>>)
        => (~x_out.sent /\ ~x_out.raised /\ x_out.result = <<>>)

(* ------------------------------------------------------------------- app *)
\* A step in which the Button 3 handler, outside the cooldown, acts.
Button3Acts == app_pc = "button3" /\ app_pc' # "button3" /\ ~InCooldown

Showing == is_scene_active \/ is_showing_results

AllFlagsFalse ==
    /\ ~is_scene_active
    /\ ~live_transcription_active
    /\ ~app_is_recording
    /\ ~is_processing
    /\ ~is_showing_results

\* C36, as amended: Button 3 outside the cooldown toggles the scene. With a
\* scene active or results showing it stops the live session: when the
\* handler returns the VoiceProcessor is idle and the five flags are false,
\* and the scene index has not changed. Otherwise it starts live
\* transcription in scenes 1 and 2 (index 0 and 1) and marks the scene
\* active; in scene 3 it starts none, and marks the scene active unless
\* drawing the camera screen fails: then the error is shown and the scene
\* stays inactive.
C36_Button3Toggles ==
    [][/\ (Button3Acts /\ Showing)
            => (app_pc' = "exit" /\ UNCHANGED current_scene_index)
       /\ (app_pc = "exit")
            => /\ UNCHANGED current_scene_index
               /\ (app_pc' = "idle")
                    => (Idle' /\ mpc' = "idle" /\ AllFlagsFalse')
       /\ (Button3Acts /\ ~Showing)
            => /\ UNCHANGED current_scene_index
               /\ IF current_scene_index \in {0, 1}
                  THEN /\ is_scene_active'
                       /\ live_transcription_active'
                       /\ live_mode'
                       /\ callback' = "cb1"
                  ELSE /\ UNCHANGED <<live_transcription_active, vpVars,
                                      recVars, cpc, ppc>>
                       /\ \/ is_scene_active'
                          \/ /\ ~is_scene_active'
                             /\ is_showing_results'
                             /\ display' = "error"]_vars

\* C36 as stated: pressed while inactive, Button 3 marks the scene active.
C36_Button3AlwaysActivates ==
    [][(Button3Acts /\ ~Showing) => is_scene_active']_vars

\* Button 3 has ended a live session whose processing thread still runs,
\* and, in another behaviour, has started one.
C36_Witness ==
    /\ app_op = "exit"
    /\ app_pc = "idle"
    /\ Idle
    /\ AllFlagsFalse
    /\ \E p \in ProcIds : ProcAlive(p)

\* C37: Button 1 pressed while a scene is active changes nothing: the scene
\* index, the flags, the live session, the display and last_action_time
\* stay as they are; is_scene_active becomes false only in the Button 3
\* handler.
C37_Button1IgnoredWhileActive ==
    [][/\ (app_pc = "button1" /\ app_pc' # "button1" /\ is_scene_active)
            => /\ app_pc' = "idle"
               /\ UNCHANGED <<current_scene_index, appFlags, camera_active,
                              last_action_time, display, vpVars, recVars,
                              cpc, ppc, mpc>>
       /\ (is_scene_active /\ ~is_scene_active') => app_pc = "exit"]_vars

\* Button 1 was pressed, outside the cooldown, during a live session.
C37_Witness ==
    /\ app_op = "switch_ignored"
    /\ app_pc = "idle"
    /\ is_scene_active
    /\ live_transcription_active
    /\ live_mode
    /\ last_action_time < current_time

\* C38: a result callback entered while live_transcription_active is false
\* changes neither the display nor the app's state, and requests no
\* translation.
C38_StaleCallbackChangesNothing ==
    [][\A p \in ProcIds :
          (ppc[p] = "incb" /\ ppc'[p] # "incb" /\ ~live_transcription_active)
            => UNCHANGED <<display, current_scene_index, appFlags,
                           camera_active, last_action_time, app_pc,
                           current_time, x_call, x_out>>]_vars

\* The callback of a processing thread that outlived the join of stop has
\* returned after the app left the scene.
C38_Witness ==
    /\ app_op = "callback_ignored"
    /\ ~live_transcription_active
    /\ ~live_mode
    /\ display = "scene"

====
